---- MODULE Spec2Model ----
(***************************************************************************)
(* Model of db-ops (src/main.rs): a command line tool that pings a         *)
(* database, recreates it through ./db_recreate.sh and seeds it from a SQL *)
(* file.  One behaviour of the model is one run of the process.            *)
(*                                                                         *)
(* The process state is the position in main and in the procedure it       *)
(* called (pc), the locals that live across an await (sql_content, conn)   *)
(* and the Result in flight (ret).  The world the process acts on is the   *)
(* command line (argvUrl, argvCommand, argvFile), the environment variable *)
(* DATABASE_URL (environ), the .env file (dotenvFile), the recreation      *)
(* script (script), the file system (fs) and the connections the process   *)
(* holds (conns).  Every effect on the world is appended to log, so that   *)
(* the order of the effects can be stated as a state predicate.            *)
(***************************************************************************)
EXTENDS Integers, Sequences, FiniteSets, TLC

\* ---------------------------------------------------------------- bounds
\* Longest seed file, in bytes.
MaxLen == 2
\* Largest exit code the recreation script returns.
MaxExit == 2

\* ------------------------------------------------------- values of the world
\* Option<T>: None is the empty set, Some(v) the singleton.
None == {}
Some(v) == {v}
Unwrap(o) == CHOOSE v \in o : TRUE

\* Result<T, E>.
Ok(v) == [ok |-> TRUE, val |-> v]
Err(e) == [ok |-> FALSE, val |-> e]
Unit == "()"

\* The bytes a seed file is made of: 'A' and 0xFF, which no UTF-8 text holds.
Bytes == {65, 255}
Contents == UNION {[1..n -> Bytes] : n \in 0..MaxLen}
\* A path of the file system holds a file's bytes, or cannot be opened.
FileStates == [kind : {"file"}, bytes : Contents]
                \cup [kind : {"missing", "denied"}, bytes : {<<>>}]

DefaultFile == "insert_data.sql"
OtherFile == "other.sql"
Paths == {DefaultFile, OtherFile}

ScriptPath == "./db_recreate.sh"
\* The script is absent, present without the execute permission, or runnable.
ScriptStates == {"absent", "noexec", "exec"}

FlagUrl == "postgres://flag/db"
EnvUrl == "postgres://env/db"
DotenvUrl == "postgres://dotenv/db"

\* How a subprocess ends: exit(n), or killed by a signal.
Signals == {9}
WaitStatuses == [exited : {TRUE}, n : 0..MaxExit] \cup [exited : {FALSE}, n : Signals]

\* "SELECT 1" as bytes.
SelectOne == <<83, 69, 76, 69, 67, 84, 32, 49>>

VARIABLES argvUrl, argvCommand, argvFile, environ, dotenvFile, script, fs,
          pc, cli, phase, db_url, file_path, ret, sql_content, conn, conns,
          nextConn, log, exitCode, stderr

world == <<argvUrl, argvCommand, argvFile, dotenvFile, script, fs>>
vars == <<argvUrl, argvCommand, argvFile, environ, dotenvFile, script, fs,
          pc, cli, phase, db_url, file_path, ret, sql_content, conn, conns,
          nextConn, log, exitCode, stderr>>

\* ------------------------------------------------------------ pure helpers
\* anyhow::Error: the outermost message and the error it wraps.
Error(msg, source) == [msg |-> msg, source |-> source]

\* {:?} of an Option<i32>.
DebugOption(o) == IF o = None THEN "None" ELSE "Some(" \o ToString(Unwrap(o)) \o ")"
\* {:?} of a path.
DebugPath(p) == "\"" \o p \o "\""

\* Faulty variant of ExitStatus_success: any exit counts, only a signal fails.
ExitStatus_success_AnyExit(st) == st.exited

\* ExitStatus::success and ExitStatus::code.
ExitStatus_success(st) == st.exited /\ st.n = 0
ExitStatus_code(st) == IF st.exited THEN Some(st.n) ELSE None

\* std::str::from_utf8 over the bytes of the model: a byte below 0x80 is a
\* character; a lead byte 0xC2..0xDF takes one continuation byte 0x80..0xBF;
\* every other byte the model can hold is invalid.
RECURSIVE IsUtf8(_)
IsUtf8(b) ==
    IF b = <<>> THEN TRUE
    ELSE IF b[1] < 128 THEN IsUtf8(Tail(b))
    ELSE IF b[1] >= 194 /\ b[1] <= 223
         THEN Len(b) >= 2 /\ b[2] >= 128 /\ b[2] <= 191 /\ IsUtf8(Tail(Tail(b)))
    ELSE FALSE

\* fs::read_to_string: open, read to the end, check the encoding; the String
\* is the file's bytes.
read_to_string(path) ==
    LET f == fs[path] IN
    IF f.kind = "missing" THEN Err("NotFound")
    ELSE IF f.kind = "denied" THEN Err("PermissionDenied")
    ELSE IF ~IsUtf8(f.bytes) THEN Err("InvalidData")
    ELSE Ok(f.bytes)

\* Faulty variant of PathExists: the check is left out.
PathExists_Always == TRUE

\* Path::exists.
PathExists == script # "absent"

\* Command::new("./db_recreate.sh").arg(db_url).status(): the outcomes.
SpawnOutcomes ==
    IF script = "absent" THEN {Err("NotFound")}
    ELSE IF script = "noexec" THEN {Err("PermissionDenied")}
    ELSE {Ok(st) : st \in WaitStatuses}

\* Faulty variant of ParseUrl: url declared with an empty default value.
ParseUrl_Default ==
    IF argvUrl # None THEN argvUrl
    ELSE IF environ # None THEN environ
    ELSE Some("")

\* clap: --url, else DATABASE_URL.
ParseUrl == IF argvUrl # None THEN argvUrl ELSE environ
\* clap: --file, else the default value.
ParseFile == IF argvFile # None THEN Unwrap(argvFile) ELSE DefaultFile

\* Faulty variant of DropConn: the connection is leaked (mem::forget).
DropConn_Leak(c) == conns

\* Drop of a PgConnection at the end of its scope.
DropConn(c) == conns \ c
DropEvents(c) == IF c = None THEN <<>> ELSE <<[op |-> "drop", id |-> Unwrap(c)]>>

Println(msg) == [op |-> "print", msg |-> msg]
Call(fn, args) == [op |-> "call", fn |-> fn, url |-> args.url, file |-> args.file]
Return(fn, r) == [op |-> "return", fn |-> fn, ret |-> r]

\* ------------------------------------------------------------------- Init
Init ==
    /\ argvUrl \in {None, Some(FlagUrl)}
    /\ argvCommand \in {"status", "recreate", "seed", "reset"}
    /\ argvFile \in IF argvCommand \in {"seed", "reset"}
                    THEN {None, Some(OtherFile)} ELSE {None}
    /\ environ \in {None, Some(EnvUrl)}
    /\ dotenvFile \in {None, Some(DotenvUrl)}
    /\ script \in ScriptStates
    /\ fs \in [Paths -> FileStates]
    /\ pc = "dotenv"
    /\ cli = [url |-> "", command |-> "", file |-> ""]
    /\ phase = 0
    /\ db_url = ""
    /\ file_path = ""
    /\ ret = Ok(Unit)
    /\ sql_content = <<>>
    /\ conn = None
    /\ conns = {}
    /\ nextConn = 1
    /\ log = <<>>
    /\ exitCode = None
    /\ stderr = None

\* ---------------------------------------------------------------- actions
\* The messages are those of the source without their leading emoji.
MsgPing == "Pinging database..."
MsgStatusOk == "Connection Successful! Database is ready."
MsgRecreate == "Recreating database via script..."
MsgRecreateOk == "Database recreated successfully."
MsgSeed(p) == "Seeding database from " \o DebugPath(p) \o "..."
MsgSeedOk == "Seeding completed."

ErrConfig == "error: the following required arguments were not provided: --url <URL>"
ErrStatusConnect == "Failed to establish connection to the database. Check your URL."
ErrStatusQuery == "Failed to execute test query (SELECT 1)"
ErrScriptNotFound == "Error: ./db_recreate.sh not found in current directory."
ErrScriptSpawn == "Failed to execute db_recreate.sh"
ErrScriptExit(code) == "db_recreate.sh exited with error code: " \o DebugOption(code)
ErrSeedRead(p) == "Failed to read SQL file: " \o DebugPath(p)
ErrSeedConnect == "Failed to connect to database for seeding"
ErrSeedQuery == "Failed to execute SQL seed query"

\* main, line 96: dotenv().ok() sets the variables of .env that the
\* environment does not set, and its failure is dropped.
LoadDotenv ==
    /\ pc = "dotenv"
    /\ environ' = IF environ = None THEN dotenvFile ELSE environ
    /\ pc' = "parse"
    /\ UNCHANGED <<world, cli, phase, db_url, file_path, ret, sql_content, conn,
                   conns, nextConn, log, exitCode, stderr>>

\* main, line 98: Cli::parse() exits with status 2 when url has no value.
ParseCli ==
    /\ pc = "parse"
    /\ IF ParseUrl = None
       THEN /\ exitCode' = Some(2)
            /\ stderr' = Some(Error(ErrConfig, "clap"))
            /\ pc' = "exited"
            /\ cli' = cli
       ELSE /\ cli' = [url |-> Unwrap(ParseUrl), command |-> argvCommand,
                       file |-> IF argvCommand \in {"seed", "reset"}
                                THEN ParseFile ELSE ""]
            /\ pc' = "dispatch"
            /\ UNCHANGED <<exitCode, stderr>>
    /\ UNCHANGED <<world, environ, phase, db_url, file_path, ret, sql_content,
                   conn, conns, nextConn, log>>

\* The procedure a command runs first, and the arguments main passes.
FirstProcedure ==
    CASE cli.command = "status" -> "check_status"
      [] cli.command = "recreate" -> "run_recreate_script"
      [] cli.command = "seed" -> "run_seed_sql"
      [] cli.command = "reset" -> "run_recreate_script"
\* The arguments of run_seed_sql in the Reset arm.
ResetSeedArgs == [url |-> cli.url, file |-> cli.file]

\* main, lines 100-111: the match calls the command's first procedure.
Main_Dispatch ==
    /\ pc = "dispatch"
    /\ phase' = 1
    /\ db_url' = cli.url
    /\ file_path' = IF FirstProcedure = "run_seed_sql" THEN cli.file ELSE ""
    /\ log' = log \o <<Call(FirstProcedure, [url |-> db_url', file |-> file_path'])>>
    /\ pc' = FirstProcedure
    /\ UNCHANGED <<world, environ, cli, ret, sql_content, conn, conns, nextConn,
                   exitCode, stderr>>

\* Faulty variant of Main_ResetSeed: line 111 without its ?, so that Seed runs
\* whatever run_recreate_script returned.
Main_ResetSeed_Unchecked ==
    /\ pc = "main_ret"
    /\ cli.command = "reset"
    /\ phase = 1
    /\ phase' = 2
    /\ db_url' = ResetSeedArgs.url
    /\ file_path' = ResetSeedArgs.file
    /\ log' = log \o <<Call("run_seed_sql", ResetSeedArgs)>>
    /\ pc' = "run_seed_sql"
    /\ UNCHANGED <<world, environ, cli, ret, sql_content, conn, conns, nextConn,
                   exitCode, stderr>>

\* main, line 112: Reset calls run_seed_sql once run_recreate_script
\* returned Ok.
Main_ResetSeed ==
    /\ pc = "main_ret"
    /\ ret.ok
    /\ cli.command = "reset"
    /\ phase = 1
    /\ phase' = 2
    /\ db_url' = ResetSeedArgs.url
    /\ file_path' = ResetSeedArgs.file
    /\ log' = log \o <<Call("run_seed_sql", ResetSeedArgs)>>
    /\ pc' = "run_seed_sql"
    /\ UNCHANGED <<world, environ, cli, ret, sql_content, conn, conns, nextConn,
                   exitCode, stderr>>

\* Faulty variant of ExitOf: main's error is swallowed.
ExitOf_Zero(r) == 0

\* The exit status of main's Result: 0 for Ok, 1 for Err.
ExitOf(r) == IF r.ok THEN 0 ELSE 1

\* main, the ? of lines 102, 105, 108, 111, 112: an Err ends main, and the
\* process prints it and exits with status 1.
Main_Propagate ==
    /\ pc = "main_ret"
    /\ ~ret.ok
    /\ exitCode' = Some(ExitOf(ret))
    /\ stderr' = Some(ret.val)
    /\ pc' = "exited"
    /\ UNCHANGED <<world, environ, cli, phase, db_url, file_path, ret,
                   sql_content, conn, conns, nextConn, log>>

\* main, line 116: Ok(()) after the command's last procedure.
Main_Ok ==
    /\ pc = "main_ret"
    /\ ret.ok
    /\ ~(cli.command = "reset" /\ phase = 1)
    /\ exitCode' = Some(ExitOf(ret))
    /\ pc' = "exited"
    /\ UNCHANGED <<world, environ, cli, phase, db_url, file_path, ret,
                   sql_content, conn, conns, nextConn, log, stderr>>

\* check_status, lines 41-44: print, connect, ? on the connect.
check_status_connect ==
    /\ pc = "check_status"
    /\ \E ok \in BOOLEAN :
         LET ev == [op |-> "connect", fn |-> "check_status", url |-> db_url,
                    ok |-> ok, id |-> nextConn]
         IN IF ok
            THEN /\ conn' = Some(nextConn)
                 /\ conns' = conns \cup {nextConn}
                 /\ nextConn' = nextConn + 1
                 /\ log' = log \o <<Println(MsgPing), ev>>
                 /\ pc' = "check_status_execute"
                 /\ ret' = ret
            ELSE /\ ret' = Err(Error(ErrStatusConnect, "sqlx"))
                 /\ log' = log \o <<Println(MsgPing), ev,
                                    Return("check_status", ret')>>
                 /\ pc' = "main_ret"
                 /\ UNCHANGED <<conn, conns, nextConn>>
    /\ UNCHANGED <<world, environ, cli, phase, db_url, file_path, sql_content,
                   exitCode, stderr>>

\* Faulty variant of check_status_execute: the Result of execute is ignored.
check_status_execute_Ignored ==
    /\ pc = "check_status_execute"
    /\ \E ok \in BOOLEAN :
         LET ev == [op |-> "execute", fn |-> "check_status", id |-> Unwrap(conn),
                    sql |-> SelectOne, ok |-> ok]
         IN /\ ret' = Ok(Unit)
            /\ log' = log \o <<ev, Println(MsgStatusOk)>>
                          \o DropEvents(conn)
                          \o <<Return("check_status", ret')>>
    /\ conns' = DropConn(conn)
    /\ conn' = None
    /\ pc' = "main_ret"
    /\ UNCHANGED <<world, environ, cli, phase, db_url, file_path, sql_content,
                   nextConn, exitCode, stderr>>

\* check_status, lines 46-52: execute SELECT 1, ? on it, print, Ok(()); conn
\* is dropped on either way out.
check_status_execute ==
    /\ pc = "check_status_execute"
    /\ \E ok \in BOOLEAN :
         LET ev == [op |-> "execute", fn |-> "check_status", id |-> Unwrap(conn),
                    sql |-> SelectOne, ok |-> ok]
         IN /\ ret' = IF ok THEN Ok(Unit) ELSE Err(Error(ErrStatusQuery, "sqlx"))
            /\ log' = log \o <<ev>>
                          \o (IF ok THEN <<Println(MsgStatusOk)>> ELSE <<>>)
                          \o DropEvents(conn)
                          \o <<Return("check_status", ret')>>
    /\ conns' = DropConn(conn)
    /\ conn' = None
    /\ pc' = "main_ret"
    /\ UNCHANGED <<world, environ, cli, phase, db_url, file_path, sql_content,
                   nextConn, exitCode, stderr>>

\* run_recreate_script, lines 55-60: print, then bail unless the script's
\* path exists.
run_recreate_script_exists ==
    /\ pc = "run_recreate_script"
    /\ LET ev == [op |-> "exists", path |-> ScriptPath, result |-> PathExists]
       IN IF PathExists
          THEN /\ log' = log \o <<Println(MsgRecreate), ev>>
               /\ pc' = "run_recreate_script_status"
               /\ ret' = ret
          ELSE /\ ret' = Err(Error(ErrScriptNotFound, ""))
               /\ log' = log \o <<Println(MsgRecreate), ev,
                                  Return("run_recreate_script", ret')>>
               /\ pc' = "main_ret"
    /\ UNCHANGED <<world, environ, cli, phase, db_url, file_path, sql_content,
                   conn, conns, nextConn, exitCode, stderr>>

\* The Result of run_recreate_script from what Command::status returned.
RecreateResult(spawned) ==
    IF ~spawned.ok THEN Err(Error(ErrScriptSpawn, spawned.val))
    ELSE IF ~ExitStatus_success(spawned.val)
         THEN Err(Error(ErrScriptExit(ExitStatus_code(spawned.val)), ""))
    ELSE Ok(Unit)

\* run_recreate_script, lines 62-72: spawn the script with db_url, wait for
\* it, ? on the spawn, bail on a status that is not a success, print, Ok(()).
run_recreate_script_status ==
    /\ pc = "run_recreate_script_status"
    /\ \E spawned \in SpawnOutcomes :
         LET ev == [op |-> "spawn", program |-> ScriptPath, args |-> <<db_url>>,
                    result |-> spawned]
         IN /\ ret' = RecreateResult(spawned)
            /\ log' = log \o <<ev>>
                          \o (IF ret'.ok THEN <<Println(MsgRecreateOk)>> ELSE <<>>)
                          \o <<Return("run_recreate_script", ret')>>
    /\ pc' = "main_ret"
    /\ UNCHANGED <<world, environ, cli, phase, db_url, file_path, sql_content,
                   conn, conns, nextConn, exitCode, stderr>>

\* Faulty variant of run_seed_sql_read: a failed read yields the empty string
\* (unwrap_or_default) and Seed goes on.
run_seed_sql_read_Unchecked ==
    /\ pc = "run_seed_sql"
    /\ LET r == read_to_string(file_path)
           ev == [op |-> "read", path |-> file_path, ok |-> r.ok]
       IN /\ sql_content' = IF r.ok THEN r.val ELSE <<>>
          /\ log' = log \o <<Println(MsgSeed(file_path)), ev>>
          /\ pc' = "run_seed_sql_connect"
    /\ UNCHANGED <<world, environ, cli, phase, db_url, file_path, ret, conn,
                   conns, nextConn, exitCode, stderr>>

\* run_seed_sql, lines 76-79: print, read the file, ? on the read.
run_seed_sql_read ==
    /\ pc = "run_seed_sql"
    /\ LET r == read_to_string(file_path)
           ev == [op |-> "read", path |-> file_path, ok |-> r.ok]
       IN IF r.ok
          THEN /\ sql_content' = r.val
               /\ log' = log \o <<Println(MsgSeed(file_path)), ev>>
               /\ pc' = "run_seed_sql_connect"
               /\ ret' = ret
          ELSE /\ ret' = Err(Error(ErrSeedRead(file_path), r.val))
               /\ log' = log \o <<Println(MsgSeed(file_path)), ev,
                                  Return("run_seed_sql", ret')>>
               /\ pc' = "main_ret"
               /\ sql_content' = sql_content
    /\ UNCHANGED <<world, environ, cli, phase, db_url, file_path, conn, conns,
                   nextConn, exitCode, stderr>>

\* run_seed_sql, lines 81-83: connect, ? on the connect.
run_seed_sql_connect ==
    /\ pc = "run_seed_sql_connect"
    /\ \E ok \in BOOLEAN :
         LET ev == [op |-> "connect", fn |-> "run_seed_sql", url |-> db_url,
                    ok |-> ok, id |-> nextConn]
         IN IF ok
            THEN /\ conn' = Some(nextConn)
                 /\ conns' = conns \cup {nextConn}
                 /\ nextConn' = nextConn + 1
                 /\ log' = log \o <<ev>>
                 /\ pc' = "run_seed_sql_execute"
                 /\ ret' = ret
            ELSE /\ ret' = Err(Error(ErrSeedConnect, "sqlx"))
                 /\ log' = log \o <<ev, Return("run_seed_sql", ret')>>
                 /\ pc' = "main_ret"
                 /\ UNCHANGED <<conn, conns, nextConn>>
    /\ UNCHANGED <<world, environ, cli, phase, db_url, file_path, sql_content,
                   exitCode, stderr>>

\* Faulty variant of SeedStatement: only the head of the text is submitted.
SeedStatement_Head == IF sql_content = <<>> THEN <<>> ELSE <<Head(sql_content)>>

\* The statement run_seed_sql hands to execute: sql_content.as_str().
SeedStatement == sql_content

\* run_seed_sql, lines 85-91: execute the file's text, ? on it, print,
\* Ok(()); conn is dropped on either way out.
run_seed_sql_execute ==
    /\ pc = "run_seed_sql_execute"
    /\ \E ok \in BOOLEAN :
         LET ev == [op |-> "execute", fn |-> "run_seed_sql", id |-> Unwrap(conn),
                    sql |-> SeedStatement, ok |-> ok]
         IN /\ ret' = IF ok THEN Ok(Unit) ELSE Err(Error(ErrSeedQuery, "sqlx"))
            /\ log' = log \o <<ev>>
                          \o (IF ok THEN <<Println(MsgSeedOk)>> ELSE <<>>)
                          \o DropEvents(conn)
                          \o <<Return("run_seed_sql", ret')>>
    /\ conns' = DropConn(conn)
    /\ conn' = None
    /\ pc' = "main_ret"
    /\ UNCHANGED <<world, environ, cli, phase, db_url, file_path, sql_content,
                   nextConn, exitCode, stderr>>

Next ==
    \/ LoadDotenv
    \/ ParseCli
    \/ Main_Dispatch
    \/ Main_ResetSeed
    \/ Main_Propagate
    \/ Main_Ok
    \/ check_status_connect
    \/ check_status_execute
    \/ run_recreate_script_exists
    \/ run_recreate_script_status
    \/ run_seed_sql_read
    \/ run_seed_sql_connect
    \/ run_seed_sql_execute

Spec == Init /\ [][Next]_vars

\* ------------------------------------------------- reading the effect log
Idx == 1..Len(log)
Steps(op) == {i \in Idx : log[i].op = op}
Calls(fn) == {i \in Idx : log[i].op = "call" /\ log[i].fn = fn}
Returns(fn) == {i \in Idx : log[i].op = "return" /\ log[i].fn = fn}
Prints(msg) == {i \in Idx : log[i].op = "print" /\ log[i].msg = msg}
\* The steps of a procedure that touch the database.
DbSteps(fn) == {i \in Idx : log[i].op \in {"connect", "execute"} /\ log[i].fn = fn}
\* Every step of Seed: the read, the connect, the execute.
SeedSteps == Steps("read") \cup DbSteps("run_seed_sql")
\* A spawn whose subprocess ended with exit status 0.
SpawnSucceeded(i) ==
    /\ log[i].op = "spawn"
    /\ log[i].result.ok
    /\ log[i].result.val.exited
    /\ log[i].result.val.n = 0
\* Step i was attempted and failed.
StepFailed(i) ==
    CASE log[i].op = "exists" -> ~log[i].result
      [] log[i].op = "spawn" -> ~SpawnSucceeded(i)
      [] log[i].op \in {"read", "connect", "execute"} -> ~log[i].ok
      [] OTHER -> FALSE
\* Step i was attempted and succeeded.
StepSucceeded(i) ==
    /\ log[i].op \in {"exists", "spawn", "read", "connect", "execute"}
    /\ ~StepFailed(i)
\* Every step of Recreate, of Seed and of Status was attempted and succeeded.
RecreateSucceeded ==
    /\ \E i \in Steps("exists") : StepSucceeded(i)
    /\ \E i \in Steps("spawn") : StepSucceeded(i)
SeedSucceeded ==
    /\ \E i \in Steps("read") : StepSucceeded(i)
    /\ \E i \in DbSteps("run_seed_sql") : log[i].op = "connect" /\ StepSucceeded(i)
    /\ \E i \in DbSteps("run_seed_sql") : log[i].op = "execute" /\ StepSucceeded(i)
StatusSucceeded ==
    /\ \E i \in DbSteps("check_status") : log[i].op = "connect" /\ StepSucceeded(i)
    /\ \E i \in DbSteps("check_status") : log[i].op = "execute" /\ StepSucceeded(i)
CommandSucceeded ==
    CASE argvCommand = "status" -> StatusSucceeded
      [] argvCommand = "recreate" -> RecreateSucceeded
      [] argvCommand = "seed" -> SeedSucceeded
      [] argvCommand = "reset" -> RecreateSucceeded /\ SeedSucceeded
\* No source gives the connection string.
NoUrlSupplied == argvUrl = None /\ environ = None /\ dotenvFile = None
\* The connection string and the file the command line gives.
GivenUrl ==
    IF argvUrl # None THEN Unwrap(argvUrl)
    ELSE IF environ # None THEN Unwrap(environ)
    ELSE Unwrap(dotenvFile)
GivenFile == IF argvFile # None THEN Unwrap(argvFile) ELSE DefaultFile

\* ------------------------------------------------------------------ claims

\* C1: in a Reset, a step of Seed (the read, the connect, the execute) is
\* attempted if and only if Recreate returned Ok before it: after a failed
\* Recreate no step of Seed is in the log and the process reports Recreate's
\* failure; after a successful Recreate Seed is called with the file and the
\* connection string the command line gave, and reads that file.
C1_ResetSeedIffRecreateOk ==
    argvCommand = "reset" =>
      /\ \A i \in SeedSteps \cup Calls("run_seed_sql") :
           \E j \in Returns("run_recreate_script") : j < i /\ log[j].ret.ok
      /\ \A i \in Calls("run_seed_sql") :
           log[i].url = GivenUrl /\ log[i].file = GivenFile
      /\ \A i \in Steps("read") : log[i].path = GivenFile
      /\ \A i \in DbSteps("run_seed_sql") :
           log[i].op = "connect" => log[i].url = GivenUrl
      /\ (pc = "exited" /\ ~NoUrlSupplied) =>
           \E j \in Returns("run_recreate_script") :
             IF log[j].ret.ok
             THEN \E i \in Steps("read") : i > j
             ELSE /\ SeedSteps = {}
                  /\ stderr = Some(log[j].ret.val)
                  /\ Cardinality(Steps("return")) = 1
C1_Witness ==
    /\ argvCommand = "reset"
    /\ pc = "exited"
    /\ argvFile = Some(OtherFile)
    /\ \E i \in DbSteps("run_seed_sql") : log[i].op = "execute"

\* C2: when ./db_recreate.sh does not exist, Recreate (alone or as the first
\* step of Reset) returns the script-not-found error and never spawns a
\* subprocess.
C2_MissingScriptNoSpawn ==
    script = "absent" =>
      /\ Steps("spawn") = {}
      /\ \A j \in Returns("run_recreate_script") :
           ~log[j].ret.ok /\ log[j].ret.val.msg = ErrScriptNotFound
      /\ (pc = "exited" /\ ~NoUrlSupplied /\ argvCommand \in {"recreate", "reset"})
           => Returns("run_recreate_script") # {}
C2_Witness ==
    /\ script = "absent"
    /\ argvCommand = "reset"
    /\ Returns("run_recreate_script") # {}

\* C3: a spawned script gets the connection string as its only argument;
\* Recreate returns Ok exactly when the subprocess exits with status 0, its
\* error names Some(n) for an exit status n other than 0, and None when the
\* subprocess was killed by a signal.
C3_RecreateFollowsExitStatus ==
    \A i \in Steps("spawn") : log[i].result.ok =>
      LET st == log[i].result.val IN
      /\ log[i].program = "./db_recreate.sh"
      /\ log[i].args = <<GivenUrl>>
      /\ \E j \in Returns("run_recreate_script") :
           /\ j > i
           /\ log[j].ret.ok <=> (st.exited /\ st.n = 0)
           /\ (st.exited /\ st.n # 0) =>
                log[j].ret.val.msg = "db_recreate.sh exited with error code: Some("
                                       \o ToString(st.n) \o ")"
           /\ ~st.exited =>
                log[j].ret.val.msg = "db_recreate.sh exited with error code: None"
C3_Witness ==
    \E i \in Steps("spawn") :
      /\ log[i].result.ok
      /\ log[i].result.val.exited
      /\ log[i].result.val.n = 1
      /\ pc = "exited"

\* C4: when the seed file cannot be read (missing, permission denied, not
\* UTF-8), Seed returns the file-read error and attempts no connection; a
\* connection of Seed is attempted only after a successful read.
C4_FailedReadHaltsSeed ==
    /\ \A i \in Steps("read") :
         /\ log[i].ok <=> (fs[log[i].path].kind = "file"
                            /\ \A k \in DOMAIN fs[log[i].path].bytes :
                                 fs[log[i].path].bytes[k] < 128)
         /\ ~log[i].ok =>
              /\ DbSteps("run_seed_sql") = {}
              /\ \E j \in Returns("run_seed_sql") :
                   /\ j > i
                   /\ ~log[j].ret.ok
                   /\ log[j].ret.val.msg = ErrSeedRead(log[i].path)
    /\ \A c \in DbSteps("run_seed_sql") :
         \E i \in Steps("read") : i < c /\ log[i].ok
C4_Witness ==
    /\ pc = "exited"
    /\ \E i \in Steps("read") : ~log[i].ok /\ fs[log[i].path].kind = "file"

\* C5: the statement Seed executes is the seed file's content, byte for
\* byte, in one execute call: never more than one, and exactly one once Seed
\* has read the file and connected.
C5_SeedSubmitsFileVerbatim ==
    LET ex == {i \in DbSteps("run_seed_sql") : log[i].op = "execute"} IN
    /\ \A i \in ex : log[i].sql = fs[GivenFile].bytes
    /\ Cardinality(ex) <= 1
    /\ (Returns("run_seed_sql") # {}
          /\ \E c \in DbSteps("run_seed_sql") : log[c].op = "connect" /\ log[c].ok)
         => Cardinality(ex) = 1
C5_Witness ==
    \E i \in DbSteps("run_seed_sql") :
      /\ log[i].op = "execute"
      /\ Len(log[i].sql) >= 2
      /\ Returns("run_seed_sql") # {}

\* C6: when neither --url nor DATABASE_URL (from the environment or from
\* .env) gives the connection string, every subcommand ends in argument
\* parsing with the configuration error and a nonzero status, and nothing is
\* connected, read or spawned.
C6_MissingUrlFailsFast ==
    NoUrlSupplied =>
      /\ log = <<>>
      /\ conns = {}
      /\ pc \in {"dotenv", "parse", "exited"}
      /\ pc = "exited" =>
           /\ exitCode # None /\ exitCode # Some(0)
           /\ stderr # None /\ Unwrap(stderr).msg = ErrConfig
C6_Witness ==
    /\ NoUrlSupplied
    /\ pc = "exited"
    /\ argvCommand = "reset"

\* C7: Status prints its success line and exits 0 only when the connect and
\* SELECT 1 both succeeded; a failed connect gives the connection error and
\* no execute; a failed SELECT 1 gives the query error; no failing run prints
\* the success line; connect and execute are each attempted at most once.
C7_StatusNeedsConnectAndQuery ==
    argvCommand = "status" =>
      LET db == DbSteps("check_status")
          con == {i \in db : log[i].op = "connect"}
          exe == {i \in db : log[i].op = "execute"}
      IN
      /\ Cardinality(con) <= 1 /\ Cardinality(exe) <= 1
      /\ \A e \in exe : log[e].sql = SelectOne
                          /\ \E c \in con : c < e /\ log[c].ok
      /\ \A p \in Prints(MsgStatusOk) :
           /\ \E c \in con : c < p /\ log[c].ok
           /\ \E e \in exe : e < p /\ log[e].ok
      /\ \A c \in con : ~log[c].ok =>
           /\ exe = {}
           /\ \E j \in Returns("check_status") :
                ~log[j].ret.ok /\ log[j].ret.val.msg = ErrStatusConnect
      /\ \A e \in exe : ~log[e].ok =>
           \E j \in Returns("check_status") :
             ~log[j].ret.ok /\ log[j].ret.val.msg = ErrStatusQuery
      /\ (\E i \in db : ~log[i].ok) => Prints(MsgStatusOk) = {}
      /\ pc = "exited" =>
           IF con # {} /\ exe # {} /\ \A i \in db : log[i].ok
           THEN exitCode = Some(0) /\ Prints(MsgStatusOk) # {}
           ELSE exitCode # Some(0) /\ Prints(MsgStatusOk) = {}
C7_Witness ==
    /\ argvCommand = "status"
    /\ pc = "exited"
    /\ \E e \in DbSteps("check_status") : log[e].op = "execute" /\ ~log[e].ok

\* C8: the process exits nonzero when an attempted step failed and with 0
\* only when every step of the command succeeded; a confirmation is printed
\* right after the step it confirms succeeded; a successful Reset prints
\* Recreate's confirmation before Seed's.
C8_ExitStatusAndConfirmations ==
    /\ pc = "exited" =>
         /\ exitCode # None
         /\ (NoUrlSupplied \/ \E i \in Idx : StepFailed(i)) => exitCode # Some(0)
         /\ exitCode = Some(0) => CommandSucceeded
         /\ CommandSucceeded => exitCode = Some(0)
    /\ \A p \in Prints(MsgStatusOk) :
         p > 1 /\ log[p - 1].op = "execute" /\ log[p - 1].fn = "check_status"
               /\ log[p - 1].ok
    /\ \A p \in Prints(MsgRecreateOk) : p > 1 /\ SpawnSucceeded(p - 1)
    /\ \A p \in Prints(MsgSeedOk) :
         p > 1 /\ log[p - 1].op = "execute" /\ log[p - 1].fn = "run_seed_sql"
               /\ log[p - 1].ok
    /\ (pc = "exited" /\ argvCommand = "reset" /\ exitCode = Some(0)) =>
         \E r \in Prints(MsgRecreateOk) : \E s \in Prints(MsgSeedOk) : r < s
C8_Witness ==
    /\ pc = "exited"
    /\ argvCommand = "reset"
    /\ exitCode = Some(0)

\* C9: whenever a procedure has returned, and when the process has exited,
\* no connection the process opened is still held: each one opened by Status
\* or Seed is dropped before the procedure's return, also when the query
\* failed; and a connect never hands back a connection used before.
C9_ConnectionsReleased ==
    /\ pc \in {"main_ret", "exited"} => conns = {}
    /\ \A j \in Steps("return") :
         \A c \in Steps("connect") : (c < j /\ log[c].ok) =>
           \E d \in Steps("drop") : c < d /\ d < j /\ log[d].id = log[c].id
    /\ \A c \in Steps("connect") : log[c].ok =>
         \A b \in Steps("connect") \cup Steps("execute") \cup Steps("drop") :
           b < c => log[b].id # log[c].id
    /\ \A e \in Steps("execute") :
         \E c \in Steps("connect") :
           c < e /\ log[c].ok /\ log[c].id = log[e].id /\ log[c].fn = log[e].fn
C9_Witness ==
    /\ pc = "exited"
    /\ Steps("drop") # {}
    /\ \E e \in Steps("execute") : ~log[e].ok

\* C10: Recreate invokes the script only after verifying that it exists and
\* is invocable: with the script absent, or present but not executable, no
\* spawn is attempted and Recreate fails at the verification.
C10_NoSpawnUnlessInvocable ==
    script # "exec" =>
      /\ Steps("spawn") = {}
      /\ \A j \in Returns("run_recreate_script") :
           ~log[j].ret.ok /\ log[j].ret.val.msg = ErrScriptNotFound

====
